---- MODULE Spec2Model ----
(***************************************************************************)
(* The per-user event loop of internal/store/event_loop.go: the engine     *)
(* (start, processNextEvent, processEvent and the five appliers), the      *)
(* pollNow and stop callers, the IMAP update channel, and the message      *)
(* patch merge (updateMessage).                                            *)
(*                                                                         *)
(* Specifications of the module:                                           *)
(*   Spec       the engine loop run by one goroutine, with pollNow         *)
(*              callers, the remote event log and the cursor cache;        *)
(*   FairSpec   Spec with the fairness the Go scheduler and timers give;   *)
(*   LifeSpec   Spec with stop() callers;                                  *)
(*   PatchSpec  updateMessage on the messages and patches of the bounds;   *)
(*   StoreSpec  processLabels and processMessages on a local store, with   *)
(*              an applied event applied again.                            *)
(***************************************************************************)
EXTENDS Integers, Sequences, FiniteSets, TLC

\* ------------------------------------------------------------------ bounds
MaxEvents == 2      \* length of the remote event log E1..En
MaxPollers == 2     \* pollNow tasks that may exist at once
MaxRuns == 1        \* start() calls that enter the loop
MaxNotices == 1     \* notices carried by one event
MaxAddresses == 1   \* addresses GetStoreAddresses returns
MaxAhead == 1       \* cap of the count loop.ahead

\* --------------------------------------------------------------- constants
EventRefreshMail == 1   \* pmapi.EventRefreshMail, the MAIL bit of Event.Refresh

Nil == "nil"     \* a nil error
NoPoller == 0    \* a nil eventProcessedCh

Engines == {"engine1"}    \* goroutines that call start()
LifeEngines == {"engine1", "engine2"}  \* the same, where stop() is called as well
Stoppers == {"stopper1"}  \* goroutines that call stop()
StopCallers == {"stopper1", "stopper2"}  \* goroutines that call stop() at the same time
Pollers == 1..MaxPollers  \* goroutines that call pollNow()

\* Error causes (errors.Cause of what the API, the store or the cache return).
ErrAPINotReachable == "ErrAPINotReachable"
ErrUpgradeApplication == "ErrUpgradeApplication"
ErrUnauthorized == "ErrUnauthorized"
ErrInvalidToken == "ErrInvalidToken"
ErrOther == "ErrOther"
ErrKinds ==
  {ErrAPINotReachable, ErrUpgradeApplication, ErrUnauthorized, ErrInvalidToken, ErrOther}
FatalKinds == {ErrUnauthorized, ErrInvalidToken}

\* Bridge events emitted on the listener.
InternetOffEvent == "InternetOffEvent"
InternetOnEvent == "InternetOnEvent"
RestartBridgeEvent == "RestartBridgeEvent"
UpgradeApplicationEvent == "UpgradeApplicationEvent"

VARIABLES
  cacheEventID,  \* cache.getEventID(userID): the persisted cursor, 0 is ""
  applied,       \* history: ids of the events whose processEvent returned nil, and
                 \* of the head events setFirstEventID obtained
  loop,          \* the eventLoop fields: currentEventID (0 is ""), isRunning,
                 \* hasInternet, stopCh and notifyStopCh (0 is nil, else the
                 \* number of the start() that made the channel); and history:
                 \* lastConnectivity, the last of InternetOff and InternetOn
                 \* emitted, and ahead, the processNextEvent executions that
                 \* returned minus the pollNow() calls that returned (counted
                 \* up to MaxAhead), and held, the values currentEventID had
  closedChs,     \* the stop and the notify channels that were closed
  env,           \* the answers the loop's calls may get in this specification:
                 \* the causes of their errors, of isFdCloseToULimit(), the
                 \* values of Event.Refresh, whether cache.setEventID succeeds
  imapUpdates,   \* TRUE when store.imapUpdates is a channel, FALSE when nil
  eng,           \* per goroutine running start(): its position and locals; the
                 \* stop channel its select waits on (selStopCh), the channels
                 \* its start() made (madeCh), its start() calls (runs), and
                 \* how its previous iteration ended (previous, kept until
                 \* the next call of GetEvent)
  pollers,       \* per pollNow() task: its position
  stop,          \* per stop() caller: its position and the channel it waits on
  patchRun,      \* PatchSpec: a message, a patch and the calls of updateMessage
  storeRun       \* StoreSpec: the local store, the remote messages, the events
                 \* applied and the replay

vars ==
  <<cacheEventID, applied, loop, closedChs, env, imapUpdates, eng, pollers, stop,
    patchRun, storeRun>>

\* ------------------------------------------------------- the remote client

HasBit(mask, bit) == (mask \div bit) % 2 = 1

\* The ids loop.apiClient.GetEvent(sinceID) may answer with, the log being
\* E1..E_MaxEvents: for "" the head of the log, whichever event that is by now;
\* else the event after sinceID, or sinceID itself while the log has nothing
\* newer. The answer is an input of the loop.
GetEvent(sinceID) ==
  IF sinceID = 0 THEN 1..MaxEvents
  ELSE {id \in {sinceID, sinceID + 1} : id <= MaxEvents}

\* The values of Event.Refresh the model draws: no bit, MAIL, another bit, both.
RefreshValues == {0, 1, 2, 3}

\* Every answer the loop's calls may get.
AnyAnswer ==
  [errKinds |-> ErrKinds, fdClose |-> BOOLEAN, refresh |-> RefreshValues,
   cacheOk |-> BOOLEAN]

\* The answers of FairSpec: a call that fails fails with InvalidToken, the
\* events are no refresh events, the file descriptors are far from the limit.
FairAnswers ==
  [errKinds |-> {ErrInvalidToken}, fdClose |-> {FALSE}, refresh |-> {0},
   cacheOk |-> BOOLEAN]

\* The answers of LifeSpec: a call that fails fails with InvalidToken, the
\* events are refresh events, the file descriptors are far from the limit and
\* the cache can be written.
LifeAnswers ==
  [errKinds |-> {ErrInvalidToken}, fdClose |-> {FALSE}, refresh |-> {EventRefreshMail},
   cacheOk |-> {TRUE}]

\* What an iteration that has not called GetEvent knows of the call.
NotFetched == [currentEventID |-> -1, cacheEventID |-> -1, hasInternet |-> TRUE]

\* The locals of one iteration of start()'s loop. The event's EventID is fixed
\* when GetEvent answers; Refresh, the collections and More are drawn where the
\* code reads them, each being read once. The fields after sendsLeft record what
\* the iteration did.
NoIteration ==
  [eventProcessedCh |-> NoPoller,  \* the poller whose request was received
   firstEventErr |-> "none",  \* what setFirstEventID returned: Nil, the call that
                              \* failed, or none when it was not called
   event |-> [EventID |-> 0, More |-> 0],  \* what was read of the fetched event
   atFetch |-> NotFetched, \* the two cursors and hasInternet when processNextEvent
                           \* called GetEvent
   refresh |-> FALSE,      \* the event's Refresh has the MAIL bit
   cause |-> Nil,          \* errors.Cause of processNextEvent's error before its defer
   err |-> Nil,            \* the error processNextEvent returned
   nearLimit |-> FALSE,    \* processNextEvent ended with an error while the file
                           \* descriptors were close to the limit
   more |-> FALSE,         \* the more flag processNextEvent returned
   noticesLeft |-> 0,      \* notices not yet sent
   sendsLeft |-> 0,        \* addresses the current notice is still to be sent to
   lastApplier |-> 0,      \* number of the last applier that ran, 0 if none
   emitted |-> <<>>,       \* bridge events emitted, in order
   logouts |-> 0,          \* calls of user.Logout()
   triggerSync |-> FALSE,  \* processEvent or an applier called store.triggerSync()
   setEventID |-> "none",  \* processNextEvent's cache.setEventID: none, ok, failed, or skipped
                           \* (the cursor already was the event's id)
   spawned |-> FALSE]      \* `go loop.pollNow()` ran after the iteration

\* ----------------------------------------------------------------- helpers

\* r with the fields of the record s overwritten by s's values.
With(r, s) == [k \in DOMAIN r |-> IF k \in DOMAIN s THEN s[k] ELSE r[k]]

\* How the iteration with record r ended, for the next one: an applier failed
\* (sinceID is what GetEvent was called with), or the cursor write failed
\* (EventID is the event's id), or neither.
Previous(r) ==
  IF r.cause # Nil /\ r.lastApplier >= 1 /\ r.setEventID = "none"
  THEN [outcome |-> "applier failed", sinceID |-> r.atFetch.currentEventID, EventID |-> -1]
  ELSE IF r.setEventID = "failed"
       THEN [outcome |-> "write failed", sinceID |-> -1, EventID |-> r.event.EventID]
       ELSE [outcome |-> "other", sinceID |-> -1, EventID |-> -1]

\* The positions of a pollNow() task: "idle" (it does not run), "send" (blocked
\* in `loop.pollCh <- eventProcessedCh`), "wait" (blocked in `<-eventProcessedCh`).
IdlePollers == {p \in Pollers : pollers[p] = "idle"}

\* go loop.pollNow(): a new task starts at the send on pollCh.
SpawnPoller == CHOOSE p \in IdlePollers : \A q \in IdlePollers : p <= q

\* Engines that will run `go loop.pollNow()`, in start() or at the end of their
\* iteration: the model keeps a poller free for each.
PendingSpawns ==
  {e \in DOMAIN eng : \/ eng[e].pc \in {"signal", "check"} /\ eng[e].more
                      \/ eng[e].pc = "starting"
                      \/ eng[e].pc = "idle" /\ eng[e].runs < MaxRuns}

FreePollers == Cardinality(IdlePollers) - Cardinality(PendingSpawns)

\* ------------------------------------------- processNextEvent's deferred filter

\* The deferred function without its last branch: an error that is neither
\* NotReachable nor UpgradeApplication is left to be returned.
DeferredFilterKeepsOther(rawErr, fdClose, internet) ==
  LET s1 == IF rawErr = ErrAPINotReachable
            THEN [err |-> Nil, emits |-> <<InternetOffEvent>>, hasInternet |-> FALSE]
            ELSE [err |-> rawErr, emits |-> <<>>, hasInternet |-> internet]
      s2 == IF s1.err # Nil /\ fdClose
            THEN [s1 EXCEPT !.err = Nil, !.emits = Append(@, RestartBridgeEvent)]
            ELSE s1
      s3 == IF s2.err = ErrUpgradeApplication
            THEN [s2 EXCEPT !.err = Nil, !.emits = Append(@, UpgradeApplicationEvent)]
            ELSE s2
  IN s3

\* The deferred function without the isFdCloseToULimit branch.
DeferredFilterNoFdCheck(rawErr, fdClose, internet) ==
  LET s1 == IF rawErr = ErrAPINotReachable
            THEN [err |-> Nil, emits |-> <<InternetOffEvent>>, hasInternet |-> FALSE]
            ELSE [err |-> rawErr, emits |-> <<>>, hasInternet |-> internet]
      s3 == IF s1.err = ErrUpgradeApplication
            THEN [s1 EXCEPT !.err = Nil, !.emits = Append(@, UpgradeApplicationEvent)]
            ELSE s1
      s4 == IF s3.err # Nil /\ s3.err # ErrUnauthorized /\ s3.err # ErrInvalidToken
            THEN [s3 EXCEPT !.err = Nil]
            ELSE s3
  IN s4

\* The deferred function of processNextEvent: the error it leaves, the bridge
\* events it emits and the new hasInternet, from the error the body ended with
\* and the isFdCloseToULimit probe.
DeferredFilter(rawErr, fdClose, internet) ==
  LET s1 == IF rawErr = ErrAPINotReachable
            THEN [err |-> Nil, emits |-> <<InternetOffEvent>>, hasInternet |-> FALSE]
            ELSE [err |-> rawErr, emits |-> <<>>, hasInternet |-> internet]
      s2 == IF s1.err # Nil /\ fdClose
            THEN [s1 EXCEPT !.err = Nil, !.emits = Append(@, RestartBridgeEvent)]
            ELSE s1
      s3 == IF s2.err = ErrUpgradeApplication
            THEN [s2 EXCEPT !.err = Nil, !.emits = Append(@, UpgradeApplicationEvent)]
            ELSE s2
      s4 == IF s3.err # Nil /\ s3.err # ErrUnauthorized /\ s3.err # ErrInvalidToken
            THEN [s3 EXCEPT !.err = Nil]
            ELSE s3
  IN s4

\* processNextEvent returns (m, rawErr) through its deferred filter. did holds
\* what the returning step changed in the engine's record, cursor the in-memory
\* cursor it leaves.
Return(e, m, rawErr, fdClose, did, cursor) ==
  LET f == DeferredFilter(rawErr, fdClose, loop.hasInternet)
      r == With(eng[e], did)
  IN /\ eng' = [eng EXCEPT ![e] =
                  With(r, [cause |-> rawErr, err |-> f.err, more |-> m,
                           nearLimit |-> (rawErr # Nil /\ fdClose),
                           emitted |-> r.emitted \o f.emits, pc |-> "signal"])]
     /\ loop' = [loop EXCEPT !.hasInternet = f.hasInternet, !.currentEventID = cursor,
                             !.lastConnectivity =
                               IF f.emits # <<>> /\ f.emits[1] = InternetOffEvent
                               THEN InternetOffEvent ELSE @,
                             !.ahead = IF @ < MaxAhead THEN @ + 1 ELSE @,
                             !.held = @ \cup {cursor}]

\* ------------------------------------------------------------ processEvent

Appliers ==
  <<"processAddresses", "processLabels", "processMessages", "processMessageCounts",
    "processNotices">>

\* -------------------------------------------------------------------- start

\* start(): `if loop.isRunning { return }` passed. MaxRuns bounds the calls of
\* one goroutine that pass it.
StartCheck(e) ==
  /\ eng[e].pc = "idle"
  /\ ~loop.isRunning
  /\ eng[e].runs < MaxRuns
  /\ eng' = [eng EXCEPT ![e].pc = "starting", ![e].runs = @ + 1]
  /\ UNCHANGED <<cacheEventID, applied, loop, closedChs, env, imapUpdates, pollers, stop,
                 patchRun, storeRun>>

\* start(): the channels are made, isRunning and hasInternet set, the first
\* pollNow task spawned; the loop enters its select.
StartInit(e) ==
  /\ eng[e].pc = "starting"
  /\ IdlePollers # {}
  /\ loop' = [loop EXCEPT !.stopCh = loop.stopCh + 1, !.notifyStopCh = loop.stopCh + 1,
                          !.isRunning = TRUE, !.hasInternet = TRUE]
  /\ pollers' = [pollers EXCEPT ![SpawnPoller] = "send"]
  /\ eng' = [eng EXCEPT ![e] =
               With(With(@, NoIteration), [pc |-> "select", selStopCh |-> loop.stopCh + 1,
                                           madeCh |-> loop.stopCh + 1])]
  /\ UNCHANGED <<cacheEventID, applied, closedChs, env, imapUpdates, stop,
                 patchRun, storeRun>>

\* A new iteration begins with the request of poller ch, or NoPoller: the locals
\* of the previous one are gone.
BeginIteration(e, ch) ==
  eng' = [eng EXCEPT ![e] =
            With(With(eng[e], NoIteration), [eventProcessedCh |-> ch, pc |-> "prelude"])]

\* select: case <-loop.stopCh: close(loop.notifyStopCh); return (the deferred
\* isRunning = false runs).
SelectStop(e) ==
  /\ eng[e].pc = "select"
  /\ eng[e].selStopCh \in closedChs.stop
  /\ closedChs' = [closedChs EXCEPT !.notify = @ \cup {loop.notifyStopCh}]
  /\ loop' = [loop EXCEPT !.isRunning = FALSE]
  /\ eng' = [eng EXCEPT ![e].pc = "idle"]
  /\ UNCHANGED <<cacheEventID, applied, env, imapUpdates, pollers, stop, patchRun,
                 storeRun>>

\* SelectPoll with the completion signal given as soon as the request is
\* received.
SelectPollSignalsAtOnce(e, p) ==
  /\ eng[e].pc = "select"
  /\ pollers[p] = "send"
  /\ pollers' = [pollers EXCEPT ![p] = "idle"]
  /\ BeginIteration(e, p)
  /\ UNCHANGED <<cacheEventID, applied, loop, closedChs, env, imapUpdates, stop,
                 patchRun, storeRun>>

\* SelectPoll with every pending request taken from pollCh at once, the
\* channel of one of them kept.
SelectPollTakesAll(e, p) ==
  /\ eng[e].pc = "select"
  /\ pollers[p] = "send"
  /\ pollers' = [q \in Pollers |-> IF pollers[q] = "send" THEN "wait" ELSE pollers[q]]
  /\ BeginIteration(e, p)
  /\ UNCHANGED <<cacheEventID, applied, loop, closedChs, env, imapUpdates, stop,
                 patchRun, storeRun>>

\* select: case eventProcessedCh = <-loop.pollCh, the rendezvous with poller p
\* blocked in `loop.pollCh <- eventProcessedCh`.
SelectPoll(e, p) ==
  /\ eng[e].pc = "select"
  /\ pollers[p] = "send"
  /\ pollers' = [pollers EXCEPT ![p] = "wait"]
  /\ BeginIteration(e, p)
  /\ UNCHANGED <<cacheEventID, applied, loop, closedChs, env, imapUpdates, stop,
                 patchRun, storeRun>>

\* select: case <-t.C, the ticker fired.
SelectTick(e) ==
  /\ eng[e].pc = "select"
  /\ BeginIteration(e, NoPoller)
  /\ UNCHANGED <<cacheEventID, applied, loop, closedChs, env, imapUpdates, pollers, stop,
                 patchRun, storeRun>>

\* setFirstEventID: GetEvent("") fails (firstID = 0), or answers the head event
\* firstID, which becomes the cursor and is written to the cache (the write fails
\* when cacheOk = FALSE).
SetFirstEventID(firstID, cacheOk) ==
  IF firstID = 0
  THEN [currentEventID |-> loop.currentEventID, cacheEventID |-> cacheEventID,
        applied |-> applied, err |-> "GetEvent"]
  ELSE [currentEventID |-> firstID,
        cacheEventID |-> IF cacheOk THEN firstID ELSE cacheEventID,
        applied |-> applied \cup {firstID},
        err |-> IF cacheOk THEN Nil ELSE "setEventID"]

\* The loop body before processNextEvent: setFirstEventID when the cursor is
\* empty, then triggerSync when the store says the sync is not finished (the
\* sync itself is the store's and is not modelled).
Prelude(e) ==
  /\ eng[e].pc = "prelude"
  /\ IF loop.currentEventID = 0
     THEN \E firstID \in {0} \cup GetEvent(0), cacheOk \in env.cacheOk :
            LET first == SetFirstEventID(firstID, cacheOk)
            IN /\ loop' = [loop EXCEPT !.currentEventID = first.currentEventID,
                                       !.held = @ \cup {first.currentEventID}]
               /\ cacheEventID' = first.cacheEventID
               /\ applied' = first.applied
               /\ eng' = [eng EXCEPT ![e].pc = "fetch", ![e].firstEventErr = first.err]
     ELSE /\ eng' = [eng EXCEPT ![e].pc = "fetch"]
          /\ UNCHANGED <<loop, cacheEventID, applied>>
  /\ UNCHANGED <<closedChs, env, imapUpdates, pollers, stop, patchRun, storeRun>>

\* -------------------------------------------------------- processNextEvent

\* GetEvent(currentEventID) fails: processNextEvent returns (false, err).
FetchFails(e) ==
  /\ eng[e].pc = "fetch"
  /\ \E k \in env.errKinds, fdClose \in env.fdClose :
       Return(e, FALSE, k, fdClose,
              [atFetch |-> [currentEventID |-> loop.currentEventID,
                            cacheEventID |-> cacheEventID,
                            hasInternet |-> loop.hasInternet],
               previous |-> Previous(NoIteration)],
              loop.currentEventID)
  /\ UNCHANGED <<cacheEventID, applied, closedChs, env, imapUpdates, pollers, stop,
                 patchRun, storeRun>>

\* Fetch with the fetched id written to the cache before the event is applied.
FetchWritesCursor(e) ==
  /\ eng[e].pc = "fetch"
  /\ \E id \in GetEvent(loop.currentEventID) :
       /\ eng' = [eng EXCEPT ![e] =
                    With(@, [event |-> [@.event EXCEPT !.EventID = id],
                             emitted |-> IF loop.hasInternet THEN @.emitted
                                         ELSE Append(@.emitted, InternetOnEvent),
                             atFetch |-> [currentEventID |-> loop.currentEventID,
                                          cacheEventID |-> cacheEventID,
                                          hasInternet |-> loop.hasInternet],
                             previous |-> Previous(NoIteration),
                             pc |-> "processEvent"])]
       /\ cacheEventID' = id
  /\ loop' = [loop EXCEPT !.hasInternet = TRUE,
                          !.lastConnectivity = IF loop.hasInternet THEN @
                                               ELSE InternetOnEvent]
  /\ UNCHANGED <<applied, closedChs, env, imapUpdates, pollers, stop, patchRun, storeRun>>

\* Fetch with InternetOn emitted whatever hasInternet is.
FetchEmitsInternetOn(e) ==
  /\ eng[e].pc = "fetch"
  /\ \E id \in GetEvent(loop.currentEventID) :
       eng' = [eng EXCEPT ![e] =
                 With(@, [event |-> [@.event EXCEPT !.EventID = id],
                          emitted |-> Append(@.emitted, InternetOnEvent),
                          atFetch |-> [currentEventID |-> loop.currentEventID,
                                       cacheEventID |-> cacheEventID,
                                       hasInternet |-> loop.hasInternet],
                          previous |-> Previous(NoIteration),
                          pc |-> "processEvent"])]
  /\ loop' = [loop EXCEPT !.hasInternet = TRUE, !.lastConnectivity = InternetOnEvent]
  /\ UNCHANGED <<cacheEventID, applied, closedChs, env, imapUpdates, pollers, stop,
                 patchRun, storeRun>>

\* GetEvent(currentEventID) answers an event; InternetOn is emitted when the
\* loop was offline.
Fetch(e) ==
  /\ eng[e].pc = "fetch"
  /\ \E id \in GetEvent(loop.currentEventID) :
       eng' = [eng EXCEPT ![e] =
                 With(@, [event |-> [@.event EXCEPT !.EventID = id],
                          emitted |-> IF loop.hasInternet THEN @.emitted
                                      ELSE Append(@.emitted, InternetOnEvent),
                          atFetch |-> [currentEventID |-> loop.currentEventID,
                                       cacheEventID |-> cacheEventID,
                                       hasInternet |-> loop.hasInternet],
                          previous |-> Previous(NoIteration),
                          pc |-> "processEvent"])]
  /\ loop' = [loop EXCEPT !.hasInternet = TRUE,
                          !.lastConnectivity = IF loop.hasInternet THEN @
                                               ELSE InternetOnEvent]
  /\ UNCHANGED <<cacheEventID, applied, closedChs, env, imapUpdates, pollers, stop,
                 patchRun, storeRun>>

\* processEvent without the early return of a refresh event.
ProcessEventNoRefresh(e) ==
  /\ eng[e].pc = "processEvent"
  /\ \E refresh \in env.refresh :
       eng' = [eng EXCEPT ![e] =
                 With(@, [refresh |-> HasBit(refresh, EventRefreshMail),
                          pc |-> Appliers[1]])]
  /\ UNCHANGED <<cacheEventID, applied, loop, closedChs, env, imapUpdates, pollers, stop,
                 patchRun, storeRun>>

\* processEvent: a refresh event triggers a sync and returns nil; any other
\* event goes to the appliers.
ProcessEvent(e) ==
  /\ eng[e].pc = "processEvent"
  /\ \E refresh \in env.refresh :
       eng' = [eng EXCEPT ![e] =
                 IF HasBit(refresh, EventRefreshMail)
                 THEN With(@, [refresh |-> TRUE, triggerSync |-> TRUE, pc |-> "advance"])
                 ELSE With(@, [refresh |-> FALSE, pc |-> Appliers[1]])]
  /\ UNCHANGED <<cacheEventID, applied, loop, closedChs, env, imapUpdates, pollers, stop,
                 patchRun, storeRun>>

\* Where processEvent goes after applier number i: the next applier, or back to
\* processNextEvent after the last.
AfterApplier(i) == IF i < Len(Appliers) THEN Appliers[i + 1] ELSE "advance"

\* `if len(collection) != 0` is false for applier number i: it is skipped.
SkipApplier(e, i) ==
  /\ eng[e].pc = Appliers[i]
  /\ eng[e].lastApplier < i
  /\ eng' = [eng EXCEPT ![e].pc = AfterApplier(i)]
  /\ UNCHANGED <<cacheEventID, applied, loop, closedChs, env, imapUpdates, pollers, stop,
                 patchRun, storeRun>>

\* An applier (number i) ended without error: on to the next one.
ApplierOk(e, i, did) ==
  /\ eng' = [eng EXCEPT ![e] =
               With(With(@, did), [lastApplier |-> i, pc |-> AfterApplier(i)])]
  /\ UNCHANGED loop

\* An applier (number i) ended with an error of cause k: processEvent and
\* processNextEvent return it.
ApplierFails(e, i, k, did) ==
  \E fdClose \in env.fdClose :
    Return(e, FALSE, k, fdClose, With(With(eng[e], did), [lastApplier |-> i]),
           loop.currentEventID)

\* processAddresses: UpdateUser fails (the user is logged out and the error
\* returned), or the store update after it fails, or all succeed.
ProcessAddresses(e) ==
  /\ eng[e].pc = "processAddresses"
  /\ \/ \E k \in env.errKinds : ApplierFails(e, 1, k, [logouts |-> eng[e].logouts + 1])
     \/ \E k \in env.errKinds : ApplierFails(e, 1, k, [logouts |-> eng[e].logouts])
     \/ ApplierOk(e, 1, [logouts |-> eng[e].logouts])
  /\ UNCHANGED <<cacheEventID, applied, closedChs, env, imapUpdates, pollers, stop,
                 patchRun, storeRun>>

\* processLabels: a store call fails, or all succeed.
ProcessLabels(e) ==
  /\ eng[e].pc = "processLabels"
  /\ \/ \E k \in env.errKinds : ApplierFails(e, 2, k, [triggerSync |-> eng[e].triggerSync])
     \/ ApplierOk(e, 2, [triggerSync |-> eng[e].triggerSync])
  /\ UNCHANGED <<cacheEventID, applied, closedChs, env, imapUpdates, pollers, stop,
                 patchRun, storeRun>>

\* processMessages: a store or fetch call fails, or all succeed.
ProcessMessages(e) ==
  /\ eng[e].pc = "processMessages"
  /\ \/ \E k \in env.errKinds : ApplierFails(e, 3, k, [triggerSync |-> eng[e].triggerSync])
     \/ ApplierOk(e, 3, [triggerSync |-> eng[e].triggerSync])
  /\ UNCHANGED <<cacheEventID, applied, closedChs, env, imapUpdates, pollers, stop,
                 patchRun, storeRun>>

\* processMessageCounts: isSynced fails, or reports a mismatch (triggerSync),
\* or reports the counts equal.
ProcessMessageCounts(e) ==
  /\ eng[e].pc = "processMessageCounts"
  /\ \/ \E k \in env.errKinds : ApplierFails(e, 4, k, [triggerSync |-> eng[e].triggerSync])
     \/ \E isSynced \in BOOLEAN :
          ApplierOk(e, 4, [triggerSync |-> eng[e].triggerSync \/ ~isSynced])
  /\ UNCHANGED <<cacheEventID, applied, closedChs, env, imapUpdates, pollers, stop,
                 patchRun, storeRun>>

\* processNotices is entered with n notices.
ProcessNotices(e) ==
  /\ eng[e].pc = "processNotices"
  /\ eng[e].lastApplier < 5
  /\ \E n \in 1..MaxNotices :
       eng' = [eng EXCEPT ![e].noticesLeft = n, ![e].lastApplier = 5]
  /\ UNCHANGED <<cacheEventID, applied, loop, closedChs, env, imapUpdates, pollers, stop,
                 patchRun, storeRun>>

\* processNotices, the outer loop: no notice is left and the applier ends, or the
\* next notice is taken and GetStoreAddresses answers n addresses.
NextNotice(e) ==
  /\ eng[e].pc = "processNotices"
  /\ eng[e].lastApplier = 5
  /\ IF eng[e].noticesLeft = 0
     THEN eng' = [eng EXCEPT ![e].pc = AfterApplier(5)]
     ELSE \E n \in 0..MaxAddresses :
            eng' = [eng EXCEPT ![e].noticesLeft = @ - 1, ![e].sendsLeft = n,
                               ![e].pc = IF n = 0 THEN "processNotices"
                                         ELSE "imapSendUpdate"]
  /\ UNCHANGED <<cacheEventID, applied, loop, closedChs, env, imapUpdates, pollers, stop,
                 patchRun, storeRun>>

\* imapSendUpdate returns to processNotices' inner loop.
ImapReturn(e) ==
  /\ eng' = [eng EXCEPT ![e].sendsLeft = @ - 1,
                        ![e].pc = IF eng[e].sendsLeft = 1 THEN "processNotices"
                                  ELSE "imapSendUpdate"]
  /\ UNCHANGED <<cacheEventID, applied, loop, closedChs, env, imapUpdates, pollers, stop,
                 patchRun, storeRun>>

\* imapSendUpdate: store.imapUpdates is nil, the update is dropped at once.
ImapUnavailable(e) ==
  /\ eng[e].pc = "imapSendUpdate"
  /\ ~imapUpdates
  /\ ImapReturn(e)

\* imapSendUpdate: a receiver takes the update from the channel.
ImapSent(e) ==
  /\ eng[e].pc = "imapSendUpdate"
  /\ imapUpdates
  /\ ImapReturn(e)

\* imapSendUpdate with a plain send in place of the select: no timeout.
ImapNoTimeout(e) ==
  /\ FALSE
  /\ UNCHANGED vars

\* imapSendUpdate: time.After(1 * time.Second) fires first, the update is dropped.
ImapTimeout(e) ==
  /\ eng[e].pc = "imapSendUpdate"
  /\ imapUpdates
  /\ ImapReturn(e)

\* Advance with the in-memory cursor moved only after the write succeeded.
AdvanceAfterWrite(e) ==
  /\ eng[e].pc = "advance"
  /\ applied' = applied \cup {eng[e].event.EventID}
  /\ \E m \in {0, 1} :
       /\ m = 1 => FreePollers > 0
       /\ LET ev == [eng[e].event EXCEPT !.More = m]
          IN IF loop.currentEventID # ev.EventID
             THEN \E cacheOk \in env.cacheOk, fdClose \in env.fdClose :
                    IF cacheOk
                    THEN /\ cacheEventID' = ev.EventID
                         /\ Return(e, ev.More = 1, Nil, fdClose,
                                   [event |-> ev, setEventID |-> "ok"], ev.EventID)
                    ELSE /\ cacheEventID' = cacheEventID
                         /\ Return(e, FALSE, ErrOther, fdClose,
                                   [event |-> ev, setEventID |-> "failed"],
                                   loop.currentEventID)
             ELSE /\ cacheEventID' = cacheEventID
                  /\ Return(e, ev.More = 1, Nil, FALSE,
                            [event |-> ev, setEventID |-> "skipped"], loop.currentEventID)
  /\ UNCHANGED <<closedChs, env, imapUpdates, pollers, stop, patchRun, storeRun>>

\* processNextEvent after processEvent returned nil: the cursor moves to the
\* event's id when it differs, and the id is written to the cache (the write
\* fails when cacheOk = FALSE); event.More is read for the result.
Advance(e) ==
  /\ eng[e].pc = "advance"
  /\ applied' = applied \cup {eng[e].event.EventID}
  /\ \E m \in {0, 1} :
       /\ m = 1 => FreePollers > 0
       /\ LET ev == [eng[e].event EXCEPT !.More = m]
          IN IF loop.currentEventID # ev.EventID
             THEN \E cacheOk \in env.cacheOk, fdClose \in env.fdClose :
                    IF cacheOk
                    THEN /\ cacheEventID' = ev.EventID
                         /\ Return(e, ev.More = 1, Nil, fdClose,
                                   [event |-> ev, setEventID |-> "ok"], ev.EventID)
                    ELSE /\ cacheEventID' = cacheEventID
                         /\ Return(e, FALSE, ErrOther, fdClose,
                                   [event |-> ev, setEventID |-> "failed"], ev.EventID)
             ELSE /\ cacheEventID' = cacheEventID
                  /\ Return(e, ev.More = 1, Nil, FALSE,
                            [event |-> ev, setEventID |-> "skipped"], loop.currentEventID)
  /\ UNCHANGED <<closedChs, env, imapUpdates, pollers, stop, patchRun, storeRun>>

\* -------------------------------------------------- the end of an iteration

\* `if eventProcessedCh != nil { eventProcessedCh <- struct{}{} }`: the poller
\* blocked in `<-eventProcessedCh` receives, closes its channel and returns from
\* pollNow().
Signal(e) ==
  /\ eng[e].pc = "signal"
  /\ IF eng[e].eventProcessedCh # NoPoller
     THEN /\ pollers[eng[e].eventProcessedCh] = "wait"
          /\ pollers' = [pollers EXCEPT ![eng[e].eventProcessedCh] = "idle"]
          /\ loop' = [loop EXCEPT !.ahead = @ - 1]
     ELSE UNCHANGED <<pollers, loop>>
  /\ eng' = [eng EXCEPT ![e].pc = "check"]
  /\ UNCHANGED <<cacheEventID, applied, closedChs, env, imapUpdates, stop,
                 patchRun, storeRun>>

\* `if err != nil`: Logout and return from start() (the deferred isRunning =
\* false runs).
ExitOnError(e) ==
  /\ eng[e].pc = "check"
  /\ eng[e].err # Nil
  /\ eng' = [eng EXCEPT ![e].logouts = @ + 1, ![e].pc = "idle"]
  /\ loop' = [loop EXCEPT !.isRunning = FALSE]
  /\ UNCHANGED <<cacheEventID, applied, closedChs, env, imapUpdates, pollers, stop,
                 patchRun, storeRun>>

\* What stays of an iteration's record once the loop is back at its select: the
\* event's id and More, processNextEvent's results, the Logout calls and the
\* cursor write.
Outcome(r) ==
  With(r, [eventProcessedCh |-> NoPoller, firstEventErr |-> "none",
           atFetch |-> NotFetched, refresh |-> FALSE, nearLimit |-> FALSE,
           lastApplier |-> 0, emitted |-> <<>>, triggerSync |-> FALSE])

\* LoopAgain without `go loop.pollNow()`.
LoopAgainNoPollNow(e) ==
  /\ eng[e].pc = "check"
  /\ eng[e].err = Nil
  /\ eng' = [eng EXCEPT ![e] =
               With(Outcome(@), [spawned |-> FALSE, selStopCh |-> loop.stopCh,
                                 previous |-> Previous(@), pc |-> "select"])]
  /\ UNCHANGED <<cacheEventID, applied, loop, closedChs, env, imapUpdates, pollers, stop,
                 patchRun, storeRun>>

\* `if more { go loop.pollNow() }`, then back to the select.
LoopAgain(e) ==
  /\ eng[e].pc = "check"
  /\ eng[e].err = Nil
  /\ pollers' = IF eng[e].more THEN [pollers EXCEPT ![SpawnPoller] = "send"]
                 ELSE pollers
  /\ eng' = [eng EXCEPT ![e] =
               With(Outcome(@), [spawned |-> eng[e].more, selStopCh |-> loop.stopCh,
                                 previous |-> Previous(@), pc |-> "select"])]
  /\ UNCHANGED <<cacheEventID, applied, loop, closedChs, env, imapUpdates, stop,
                 patchRun, storeRun>>

\* ------------------------------------------------------------------ pollNow

\* A caller enters pollNow(): it makes its channel and blocks sending it.
PollNow(p) ==
  /\ pollers[p] = "idle"
  /\ FreePollers > 0
  /\ pollers' = [pollers EXCEPT ![p] = "send"]
  /\ UNCHANGED <<cacheEventID, applied, loop, closedChs, env, imapUpdates, eng, stop,
                 patchRun, storeRun>>

\* --------------------------------------------------------------------- stop

\* stop(): `if loop.isRunning` read as true. MaxRuns bounds the calls of one
\* goroutine that find the loop running.
StopCheck(s) ==
  /\ stop[s].pc = "idle"
  /\ loop.isRunning
  /\ stop[s].calls < MaxRuns
  /\ stop' = [stop EXCEPT ![s].pc = "close", ![s].calls = @ + 1]
  /\ UNCHANGED <<cacheEventID, applied, loop, closedChs, env, imapUpdates, eng, pollers,
                 patchRun, storeRun>>

\* stop(): isRunning = false; close(loop.stopCh) of a channel that is already
\* closed: the Go runtime panics ("close of closed channel") and the process
\* ends; the steps the model takes after it belong to no run of the program.
StopClosePanics(s) ==
  /\ stop[s].pc = "close"
  /\ loop.stopCh \in closedChs.stop
  /\ loop' = [loop EXCEPT !.isRunning = FALSE]
  /\ stop' = [stop EXCEPT ![s].pc = "panic"]
  /\ UNCHANGED <<cacheEventID, applied, closedChs, env, imapUpdates, eng, pollers,
                 patchRun, storeRun>>

\* stop(): isRunning = false; close(loop.stopCh) of an open channel; the select
\* on notifyStopCh begins.
StopClose(s) ==
  /\ stop[s].pc = "close"
  /\ loop.stopCh \notin closedChs.stop
  /\ loop' = [loop EXCEPT !.isRunning = FALSE]
  /\ closedChs' = [closedChs EXCEPT !.stop = @ \cup {loop.stopCh}]
  /\ stop' = [stop EXCEPT ![s].pc = "wait", ![s].waitCh = loop.notifyStopCh]
  /\ UNCHANGED <<cacheEventID, applied, env, imapUpdates, eng, pollers, patchRun,
                 storeRun>>

\* stop(): case <-loop.notifyStopCh.
StopNotified(s) ==
  /\ stop[s].pc = "wait"
  /\ stop[s].waitCh \in closedChs.notify
  /\ stop' = [stop EXCEPT ![s].pc = "idle"]
  /\ UNCHANGED <<cacheEventID, applied, loop, closedChs, env, imapUpdates, eng, pollers,
                 patchRun, storeRun>>

\* stop(): case <-time.After(1 * time.Second).
StopTimeout(s) ==
  /\ stop[s].pc = "wait"
  /\ stop' = [stop EXCEPT ![s].pc = "idle"]
  /\ UNCHANGED <<cacheEventID, applied, loop, closedChs, env, imapUpdates, eng, pollers,
                 patchRun, storeRun>>

\* -------------------------------------------------------------- environment

\* SetIMAPUpdateChannel(updates), with a channel or with nil.
SetIMAPUpdateChannel(updates) ==
  /\ imapUpdates # updates
  /\ imapUpdates' = updates
  /\ UNCHANGED <<cacheEventID, applied, loop, closedChs, env, eng, pollers, stop,
                 patchRun, storeRun>>

\* ------------------------------------------------------------ updateMessage

MaxLabelIDs == 2    \* length of a list of label ids
MaxCalls == 2       \* calls of updateMessage with one patch

LabelIDs == {"L1", "L2", "L3"}

\* The fields of pmapi.EventMessageUpdated that are pointers, nil when absent.
PatchFields == {"Subject", "Sender", "ToList", "CCList", "BCCList", "Unread", "Flags"}

Range(s) == {s[i] : i \in 1..Len(s)}

SeqsUpTo(S, n) == UNION {[1..k -> S] : k \in 0..n}

\* AddLabelIDs without the hasLabel check.
RECURSIVE AddLabelIDsNoCheck(_, _)
AddLabelIDsNoCheck(ids, added) ==
  IF added = <<>> THEN ids
  ELSE AddLabelIDsNoCheck(Append(ids, Head(added)), Tail(added))

\* `for _, added := range updates.LabelIDsAdded`: added is appended unless the
\* inner loop finds it in message.LabelIDs.
RECURSIVE AddLabelIDs(_, _)
AddLabelIDs(ids, added) ==
  IF added = <<>> THEN ids
  ELSE AddLabelIDs(IF Head(added) \in Range(ids) THEN ids ELSE Append(ids, Head(added)),
                   Tail(added))

\* RemoveLabelIDs where each removed id takes out one occurrence only.
RECURSIVE RemoveLabelIDsOnce(_, _)
RemoveLabelIDsOnce(ids, removed) ==
  IF removed = <<>> THEN ids
  ELSE LET at == {i \in 1..Len(ids) : ids[i] = Head(removed)}
           first == IF at = {} THEN 0 ELSE CHOOSE i \in at : \A j \in at : i <= j
       IN RemoveLabelIDsOnce(
            [i \in 1..(Len(ids) - (IF first = 0 THEN 0 ELSE 1)) |->
               IF first = 0 \/ i < first THEN ids[i] ELSE ids[i + 1]],
            Tail(removed))

\* `for _, l := range message.LabelIDs`: l is kept unless the inner loop finds
\* it in updates.LabelIDsRemoved.
RemoveLabelIDs(ids, removed) == SelectSeq(ids, LAMBDA l : l \notin Range(removed))

\* What a pointer field of the patch does to the message's field.
Patched(message, updates, f) == IF updates[f] # Nil THEN updates[f] ELSE message[f]

\* updateMessage with the removal done before the addition.
updateMessageRemoveFirst(message, updates) ==
  [ID |-> message.ID,
   Time |-> updates.Time,
   Subject |-> Patched(message, updates, "Subject"),
   Sender |-> Patched(message, updates, "Sender"),
   ToList |-> Patched(message, updates, "ToList"),
   CCList |-> Patched(message, updates, "CCList"),
   BCCList |-> Patched(message, updates, "BCCList"),
   Unread |-> Patched(message, updates, "Unread"),
   Flags |-> Patched(message, updates, "Flags"),
   LabelIDs |-> IF updates.hasLabelIDs THEN updates.LabelIDs
                ELSE AddLabelIDs(RemoveLabelIDs(message.LabelIDs, updates.LabelIDsRemoved),
                                 updates.LabelIDsAdded)]

\* updateMessage(msgLog, message, updates): the message it leaves.
updateMessage(message, updates) ==
  [ID |-> message.ID,
   Time |-> updates.Time,
   Subject |-> Patched(message, updates, "Subject"),
   Sender |-> Patched(message, updates, "Sender"),
   ToList |-> Patched(message, updates, "ToList"),
   CCList |-> Patched(message, updates, "CCList"),
   BCCList |-> Patched(message, updates, "BCCList"),
   Unread |-> Patched(message, updates, "Unread"),
   Flags |-> Patched(message, updates, "Flags"),
   LabelIDs |-> IF updates.hasLabelIDs THEN updates.LabelIDs
                ELSE RemoveLabelIDs(AddLabelIDs(message.LabelIDs, updates.LabelIDsAdded),
                                    updates.LabelIDsRemoved)]

\* The message id with the label ids ids; its other fields hold "old".
Message(id, ids) ==
  [ID |-> id, Time |-> "old", Subject |-> "old", Sender |-> "old", ToList |-> "old",
   CCList |-> "old", BCCList |-> "old", Unread |-> "old", Flags |-> "old",
   LabelIDs |-> ids]

\* A patch: Time, the pointer fields of present set to "new" and the others nil,
\* LabelIDs (nil when hasLabelIDs is FALSE), LabelIDsAdded and LabelIDsRemoved.
Updates(present, hasLabelIDs, ids, added, removed) ==
  [Time |-> "new",
   Subject |-> IF "Subject" \in present THEN "new" ELSE Nil,
   Sender |-> IF "Sender" \in present THEN "new" ELSE Nil,
   ToList |-> IF "ToList" \in present THEN "new" ELSE Nil,
   CCList |-> IF "CCList" \in present THEN "new" ELSE Nil,
   BCCList |-> IF "BCCList" \in present THEN "new" ELSE Nil,
   Unread |-> IF "Unread" \in present THEN "new" ELSE Nil,
   Flags |-> IF "Flags" \in present THEN "new" ELSE Nil,
   hasLabelIDs |-> hasLabelIDs, LabelIDs |-> ids,
   LabelIDsAdded |-> added, LabelIDsRemoved |-> removed]

\* The patches PatchSpec draws: every set of present fields, with LabelIDs nil
\* and every pair of added and removed lists, or with LabelIDs a list of at most
\* one id and short added and removed lists (which updateMessage then ignores).
PatchInputs ==
  {Updates(present, FALSE, <<>>, added, removed) :
     present \in SUBSET PatchFields,
     added \in SeqsUpTo(LabelIDs, MaxLabelIDs),
     removed \in SeqsUpTo(LabelIDs, MaxLabelIDs)}
  \cup
  {Updates(present, TRUE, ids, added, removed) :
     present \in SUBSET PatchFields,
     ids \in SeqsUpTo(LabelIDs, 1),
     added \in {<<>>, <<"L1">>}, removed \in {<<>>, <<"L1">>}}

\* PatchSpec before it draws its inputs, and in every other specification.
NoPatchRun ==
  [input |-> Message("m1", <<>>), updates |-> Updates({}, FALSE, <<>>, <<>>, <<>>),
   message |-> Message("m1", <<>>), results |-> <<>>]

PatchInit ==
  \E ids \in SeqsUpTo(LabelIDs, MaxLabelIDs), updates \in PatchInputs :
    patchRun = [input |-> Message("m1", ids), updates |-> updates, message |-> Message("m1", ids),
                results |-> <<>>]

\* A call updateMessage(msgLog, message, updates): message is changed in place.
UpdateMessage ==
  /\ Len(patchRun.results) < MaxCalls
  /\ patchRun' = [patchRun EXCEPT !.message = updateMessage(@, patchRun.updates),
                                  !.results = Append(@, updateMessage(patchRun.message,
                                                                      patchRun.updates))]
  /\ UNCHANGED <<cacheEventID, applied, loop, closedChs, env, imapUpdates, eng, pollers, stop,
                 storeRun>>

\* ------------------------------------------- the appliers on the local store

MaxHistory == 2    \* events applied to the store
MaxDeltas == 1     \* deltas in one collection of an event

MsgIDs == {"m1"}

\* pmapi.EventAction.
EventDelete == "EventDelete"
EventCreate == "EventCreate"
EventUpdate == "EventUpdate"
EventUpdateFlags == "EventUpdateFlags"

ErrNoSuchAPIID == "ErrNoSuchAPIID"

\* A pointer is a sequence: <<>> is nil, <<v>> points to v.

\* The local store: messages by id, and mailboxes (label names) by label id.
EmptyDB == [messages |-> <<>>, mailboxes |-> <<>>]

\* store.createOrUpdateMessageEvent(msg): an upsert by id.
createOrUpdateMessageEvent(db, msg) ==
  [db EXCEPT !.messages =
     [id \in DOMAIN db.messages \cup {msg.ID} |->
        IF id = msg.ID THEN msg ELSE db.messages[id]]]

\* store.deleteMessageEvent(id): the message is removed, if there.
deleteMessageEvent(db, id) ==
  [db EXCEPT !.messages = [i \in DOMAIN db.messages \ {id} |-> db.messages[i]]]

\* store.getMessageFromDB(id): the message, or nil with ErrNoSuchAPIID.
getMessageFromDB(db, id) ==
  IF id \in DOMAIN db.messages THEN <<db.messages[id]>> ELSE <<>>

\* store.fetchMessage(id): the message as the API has it (api is the set of
\* the ids the API still has), or nil with ErrNoSuchAPIID.
fetchMessage(api, id) == IF id \in api THEN <<Message(id, <<"L3">>)>> ELSE <<>>

\* store.createOrUpdateMailboxEvent(label): an upsert by id.
createOrUpdateMailboxEvent(db, label) ==
  [db EXCEPT !.mailboxes =
     [id \in DOMAIN db.mailboxes \cup {label.ID} |->
        IF id = label.ID THEN label.Name ELSE db.mailboxes[id]]]

\* store.deleteMailboxEvent(id): the mailbox is removed, if there.
deleteMailboxEvent(db, id) ==
  [db EXCEPT !.mailboxes = [i \in DOMAIN db.mailboxes \ {id} |-> db.mailboxes[i]]]

\* processLabels(eventLog, labels) on the store db: the store it leaves and the
\* error it returns. failAt is the number of the delta whose store call fails,
\* counted from the head of labels, 0 when none does.
RECURSIVE processLabels(_, _, _)
processLabels(db, labels, failAt) ==
  IF labels = <<>> THEN [db |-> db, err |-> Nil]
  ELSE LET eventLabel == Head(labels)
       IN IF failAt = 1 THEN [db |-> db, err |-> ErrOther]
          ELSE processLabels(
                 IF eventLabel.Action \in {EventCreate, EventUpdate}
                 THEN createOrUpdateMailboxEvent(db, eventLabel.Label)
                 ELSE IF eventLabel.Action = EventDelete
                 THEN deleteMailboxEvent(db, eventLabel.ID)
                 ELSE db,
                 Tail(labels), failAt - 1)

\* processMessages(eventLog, messages) on the store db, the API having the
\* messages of api: the store it leaves and the error it returns. err is the
\* named result, which a delta that makes no store call leaves as it was, and
\* which `continue` leaves at ErrNoSuchAPIID; failAt is as in processLabels.
RECURSIVE processMessages(_, _, _, _, _)
processMessages(db, api, messages, failAt, err) ==
  IF messages = <<>> THEN [db |-> db, err |-> err]
  ELSE
    LET message == Head(messages)
        rest == Tail(messages)
        local == getMessageFromDB(db, message.ID)
        msg == IF local # <<>> THEN local ELSE fetchMessage(api, message.ID)
    IN CASE message.Action = EventCreate ->
              IF message.Created = <<>>
              THEN processMessages(db, api, rest, failAt - 1, err)
              ELSE IF failAt = 1 THEN [db |-> db, err |-> ErrOther]
              ELSE processMessages(createOrUpdateMessageEvent(db, message.Created[1]),
                                   api, rest, failAt - 1, Nil)
         [] message.Action \in {EventUpdate, EventUpdateFlags} ->
              IF message.Updated = <<>>
              THEN processMessages(db, api, rest, failAt - 1, err)
              ELSE IF failAt = 1 THEN [db |-> db, err |-> ErrOther]
              ELSE IF msg = <<>>
              THEN processMessages(db, api, rest, failAt - 1, ErrNoSuchAPIID)
              ELSE processMessages(
                     createOrUpdateMessageEvent(
                       db, updateMessage(msg[1], message.Updated[1])),
                     api, rest, failAt - 1, Nil)
         [] message.Action = EventDelete ->
              IF failAt = 1 THEN [db |-> db, err |-> ErrOther]
              ELSE processMessages(deleteMessageEvent(db, message.ID), api, rest,
                                   failAt - 1, Nil)
         [] OTHER -> processMessages(db, api, rest, failAt - 1, err)

\* processEvent's label and message appliers on the store db.
processEvent(db, api, event, failLabels, failMessages) ==
  LET labels == IF Len(event.Labels) # 0
                THEN processLabels(db, event.Labels, failLabels)
                ELSE [db |-> db, err |-> Nil]
  IN IF labels.err # Nil THEN labels
     ELSE IF Len(event.Messages) # 0
     THEN processMessages(labels.db, api, event.Messages, failMessages, Nil)
     ELSE labels

\* The label deltas StoreSpec draws, all of label L1.
LabelDeltas ==
  {[Action |-> EventCreate, ID |-> "L1", Label |-> [ID |-> "L1", Name |-> "n1"]],
   [Action |-> EventUpdate, ID |-> "L1", Label |-> [ID |-> "L1", Name |-> "n2"]],
   [Action |-> EventDelete, ID |-> "L1", Label |-> [ID |-> "L1", Name |-> "n1"]]}

\* The patches of the message deltas StoreSpec draws.
StorePatches ==
  {Updates({}, FALSE, <<>>, <<"L2">>, <<>>),
   Updates({"Unread"}, FALSE, <<>>, <<>>, <<"L1">>)}

\* The message deltas StoreSpec draws: a create with a message or with nil, an
\* update or a flags update with a patch or with nil, a delete.
MessageDeltas ==
  UNION {
    {[Action |-> EventCreate, ID |-> id, Created |-> created, Updated |-> <<>>] :
       created \in {<<>>, <<Message(id, <<"L1">>)>>}}
    \cup
    {[Action |-> action, ID |-> id, Created |-> <<>>, Updated |-> updated] :
       action \in {EventUpdate, EventUpdateFlags},
       updated \in {<<>>} \cup {<<updates>> : updates \in StorePatches}}
    \cup
    {[Action |-> EventDelete, ID |-> id, Created |-> <<>>, Updated |-> <<>>]} :
    id \in MsgIDs}

Events ==
  [Labels : SeqsUpTo(LabelDeltas, MaxDeltas), Messages : SeqsUpTo(MessageDeltas, MaxDeltas)]

\* No two message deltas of the event name the same message, and no two label
\* deltas the same label.
DistinctDeltas(event) ==
  /\ \A i, j \in 1..Len(event.Messages) :
       i # j => event.Messages[i].ID # event.Messages[j].ID
  /\ \A i, j \in 1..Len(event.Labels) :
       i # j => event.Labels[i].ID # event.Labels[j].ID

\* The ids of the messages that the events delete, or create when create is TRUE.
Named(events, create) ==
  UNION {{events[i].Messages[j].ID :
            j \in {k \in 1..Len(events[i].Messages) :
                     IF create
                     THEN /\ events[i].Messages[k].Action = EventCreate
                          /\ events[i].Messages[k].Created # <<>>
                     ELSE events[i].Messages[k].Action = EventDelete}} :
         i \in 1..Len(events)}

\* StoreSpec's state where StoreSpec does not run.
NoStoreRun ==
  [db |-> EmptyDB,     \* the local store
   api |-> {},         \* ids of the messages the API has
   events |-> <<>>,    \* the events whose processEvent returned nil, in order
   partial |-> FALSE,  \* the last processEvent returned an error
   replayed |-> 0,     \* number in events of the event applied again, or 0
   before |-> EmptyDB] \* the store before the replay

StoreInit ==
  \E api \in SUBSET MsgIDs : storeRun = [NoStoreRun EXCEPT !.api = api]

\* An iteration fetches an event and processEvent applies its labels and
\* messages; a store call may fail. The server does not create a message under
\* the id of one it deleted.
ApplyEvent ==
  /\ storeRun.replayed = 0
  /\ Len(storeRun.events) < MaxHistory
  /\ \E event \in Events, failLabels \in 0..MaxDeltas, failMessages \in 0..MaxDeltas :
       /\ failLabels <= Len(event.Labels)
       /\ failMessages <= Len(event.Messages)
       /\ Named(<<event>>, TRUE) \cap Named(storeRun.events, FALSE) = {}
       /\ LET res == processEvent(storeRun.db, storeRun.api, event, failLabels,
                                  failMessages)
          IN storeRun' =
               [storeRun EXCEPT !.db = res.db,
                                !.events = IF res.err = Nil THEN Append(@, event) ELSE @,
                                !.partial = res.err # Nil]
  /\ UNCHANGED <<cacheEventID, applied, loop, closedChs, env, imapUpdates, eng, pollers, stop,
                 patchRun>>

\* An event applied before is fetched and applied again (the persisted cursor
\* was behind it when the loop was restarted).
ReplayEvent ==
  /\ storeRun.replayed = 0
  /\ \E i \in 1..Len(storeRun.events), failLabels \in 0..MaxDeltas,
        failMessages \in 0..MaxDeltas :
       /\ failLabels <= Len(storeRun.events[i].Labels)
       /\ failMessages <= Len(storeRun.events[i].Messages)
       /\ storeRun' =
            [storeRun EXCEPT
               !.db = processEvent(storeRun.db, storeRun.api, storeRun.events[i],
                                   failLabels, failMessages).db,
               !.replayed = i,
               !.before = storeRun.db]
  /\ UNCHANGED <<cacheEventID, applied, loop, closedChs, env, imapUpdates, eng, pollers, stop,
                 patchRun>>

\* A message is deleted on the server.
RemoteDelete ==
  /\ storeRun.replayed = 0
  /\ \E id \in storeRun.api : storeRun' = [storeRun EXCEPT !.api = @ \ {id}]
  /\ UNCHANGED <<cacheEventID, applied, loop, closedChs, env, imapUpdates, eng, pollers, stop,
                 patchRun>>
\* ----------------------------------------------------------- specifications

\* The engine's variables where nothing was started, the cursor being cursor,
\* engines the goroutines that will call start(), stoppers those that will call
\* stop() and answers what the loop's calls may get.
LoopInit(engines, stoppers, answers, cursor) ==
  /\ cacheEventID = cursor
  /\ env = answers
  /\ applied = IF cursor = 0 THEN {} ELSE {cursor}
  /\ loop = [currentEventID |-> cursor, isRunning |-> FALSE, hasInternet |-> FALSE,
             stopCh |-> 0, notifyStopCh |-> 0, lastConnectivity |-> Nil, ahead |-> 0,
             held |-> {cursor}]
  /\ closedChs = [stop |-> {}, notify |-> {}]
  /\ imapUpdates = FALSE
  /\ eng = [e \in engines |-> [pc |-> "idle", selStopCh |-> 0, madeCh |-> 0, runs |-> 0,
                                  previous |-> Previous(NoIteration)]
                                 @@ NoIteration]
  /\ pollers = [p \in Pollers |-> "idle"]
  /\ stop = [s \in stoppers |-> [pc |-> "idle", waitCh |-> 0, calls |-> 0]]

EngineInitOf(engines, answers, cursor) == LoopInit(engines, Stoppers, answers, cursor)

EngineInit(cursor) == EngineInitOf(Engines, AnyAnswer, cursor)

\* newEventLoop: the cursor is read from the cache (empty, or the id of an event
\* applied by an earlier run), pollCh is made; nothing runs.
Init ==
  /\ \E cursor \in {0, 1} : EngineInit(cursor)
  /\ patchRun = NoPatchRun
  /\ storeRun = NoStoreRun

\* The steps of the goroutine running start() that need no other party: the Go
\* scheduler runs them, and its timers (the ticker, time.After) fire.
EngineProgress(e) ==
  \/ StartCheck(e)
  \/ StartInit(e)
  \/ \E p \in Pollers : SelectPoll(e, p)
  \/ SelectTick(e)
  \/ Prelude(e)
  \/ FetchFails(e)
  \/ Fetch(e)
  \/ ProcessEvent(e)
  \/ \E i \in 1..Len(Appliers) : SkipApplier(e, i)
  \/ ProcessAddresses(e)
  \/ ProcessLabels(e)
  \/ ProcessMessages(e)
  \/ ProcessMessageCounts(e)
  \/ ProcessNotices(e)
  \/ NextNotice(e)
  \/ ImapUnavailable(e)
  \/ ImapTimeout(e)
  \/ Advance(e)
  \/ Signal(e)
  \/ ExitOnError(e)
  \/ LoopAgain(e)

\* Every step of the goroutine running start(); ImapSent needs a receiver.
EngineStep(e) ==
  \/ EngineProgress(e)
  \/ ImapSent(e)

\* One goroutine runs start(); pollNow() callers and SetIMAPUpdateChannel come
\* and go. stop() is not called.
Next ==
  \/ \E e \in Engines : EngineStep(e)
  \/ \E p \in Pollers : PollNow(p)
  \/ \E updates \in BOOLEAN : SetIMAPUpdateChannel(updates)

Spec == Init /\ [][Next]_vars

\* newEventLoop as in Init, the calls of the loop getting the answers of
\* FairAnswers.
FairInit ==
  /\ \E cursor \in {0, 1} : EngineInitOf(Engines, FairAnswers, cursor)
  /\ patchRun = NoPatchRun
  /\ storeRun = NoStoreRun

\* The loop of Spec under the fairness of the Go runtime: a goroutine that can
\* step does step. No receiver is assumed on the IMAP update channel.
FairSpec == FairInit /\ [][Next]_vars /\ \A e \in Engines : WF_vars(EngineProgress(e))

\* newEventLoop with the cursor of an earlier run, and two goroutines that will
\* call start().
LifeInit ==
  /\ EngineInitOf(LifeEngines, LifeAnswers, 1)
  /\ patchRun = NoPatchRun
  /\ storeRun = NoStoreRun

\* The steps of a goroutine running start() on a log of refresh events: no
\* applier runs.
LifeStep(e) ==
  \/ StartCheck(e)
  \/ StartInit(e)
  \/ SelectStop(e)
  \/ \E p \in Pollers : SelectPoll(e, p)
  \/ SelectTick(e)
  \/ Prelude(e)
  \/ FetchFails(e)
  \/ Fetch(e)
  \/ ProcessEvent(e)
  \/ Advance(e)
  \/ Signal(e)
  \/ ExitOnError(e)
  \/ LoopAgain(e)

\* Two goroutines call start(), another calls stop(); pollNow() is called by
\* start() only.
LifeNext ==
  \/ \E e \in LifeEngines : LifeStep(e)
  \/ \E s \in Stoppers : StopCheck(s)
  \/ \E s \in Stoppers : StopClose(s)
  \/ \E s \in Stoppers : StopNotified(s)
  \/ \E s \in Stoppers : StopTimeout(s)

LifeSpec == LifeInit /\ [][LifeNext]_vars

\* newEventLoop with the cursor of an earlier run, one goroutine that will call
\* start() and two that will call stop().
StopInit ==
  /\ LoopInit(Engines, StopCallers, LifeAnswers, 1)
  /\ patchRun = NoPatchRun
  /\ storeRun = NoStoreRun

\* One goroutine calls start(), two call stop() with no order between them;
\* pollNow() is called by start() only.
StopNext ==
  \/ \E e \in Engines : LifeStep(e)
  \/ \E s \in StopCallers : StopCheck(s)
  \/ \E s \in StopCallers : StopClose(s)
  \/ \E s \in StopCallers : StopClosePanics(s)
  \/ \E s \in StopCallers : StopNotified(s)
  \/ \E s \in StopCallers : StopTimeout(s)

StopSpec == StopInit /\ [][StopNext]_vars

\* One goroutine runs start() and another calls stop(); pollNow() callers and
\* SetIMAPUpdateChannel come and go.
PollNext ==
  \/ Next
  \/ \E e \in Engines : SelectStop(e)
  \/ \E s \in Stoppers : StopCheck(s)
  \/ \E s \in Stoppers : StopClose(s)
  \/ \E s \in Stoppers : StopNotified(s)
  \/ \E s \in Stoppers : StopTimeout(s)

\* A stop() that has read isRunning goes on to its end.
StopProgress(s) == StopClose(s) \/ StopNotified(s) \/ StopTimeout(s)

\* The loop with stop() under the fairness of the Go runtime: a goroutine that
\* can step does step, and a case of the select of start() that is ready again
\* and again is taken (the runtime picks among the ready cases at random).
\* Whether start(), stop() or pollNow() is called at all is left open: a
\* start() that has returned need not be called again.
PollSpec ==
  /\ FairInit
  /\ [][PollNext]_vars
  /\ \A e \in Engines : WF_vars(eng[e].pc # "idle" /\ EngineProgress(e))
  /\ \A e \in Engines : SF_vars(SelectStop(e))
  /\ \A e \in Engines : \A p \in Pollers : SF_vars(SelectPoll(e, p))
  /\ \A s \in Stoppers : WF_vars(StopProgress(s))

\* updateMessage called, up to MaxCalls times, on every message and patch of
\* the bounds.
PatchSpecInit ==
  /\ EngineInit(0)
  /\ PatchInit
  /\ storeRun = NoStoreRun

PatchNext == UpdateMessage

PatchSpec == PatchSpecInit /\ [][PatchNext]_vars

\* Events applied to the local store by processLabels and processMessages, and
\* one of them applied again.
StoreSpecInit ==
  /\ EngineInit(0)
  /\ patchRun = NoPatchRun
  /\ StoreInit

StoreNext ==
  \/ ApplyEvent
  \/ ReplayEvent
  \/ RemoteDelete

StoreSpec == StoreSpecInit /\ [][StoreNext]_vars
\* ------------------------------------------------------------------- claims

\* Positions of start()'s loop between the reception of a request (or a tick)
\* and the return of processNextEvent.
BeforePNEReturns ==
  {"prelude", "fetch", "processEvent", "imapSendUpdate", "advance"}
    \cup {Appliers[i] : i \in 1..Len(Appliers)}

\* Positions after processNextEvent returned: before the signal, before the
\* error check, and after the iteration (in the select, or out of start()).
AfterIteration == {"select", "idle"}

\* C1: the persisted cursor is at all times empty or the id of an event of the
\* stream that was fetched and applied (or the head id setFirstEventID got); it is
\* never ahead of the last applied event and never moves back.
PersistedCursorFollowsApplied ==
  /\ [](/\ cacheEventID \in 0..MaxEvents
        /\ cacheEventID # 0 => /\ cacheEventID \in applied
                               /\ \E id \in applied : cacheEventID <= id)
  /\ [][cacheEventID' >= cacheEventID]_vars

\* C1's case: an iteration applied an event after the first and wrote its id.
PersistedCursorAdvanced ==
  \E e \in Engines :
    /\ eng[e].setEventID = "ok"
    /\ eng[e].event.EventID > 1
    /\ cacheEventID = eng[e].event.EventID

\* C2: from the reception of a pollNow request until processNextEvent of the
\* receiving iteration has returned, the caller is still waiting for its
\* completion signal.
SignalAfterProcessNextEvent ==
  \A e \in Engines :
    (eng[e].pc \in BeforePNEReturns \cup {"signal"} /\ eng[e].eventProcessedCh # NoPoller)
      => pollers[eng[e].eventProcessedCh] = "wait"

\* C2's case: an iteration that received a request fetched and applied an event,
\* attempted the cursor write and then released the caller.
SignalDelivered ==
  \E e \in Engines :
    /\ eng[e].pc = "check"
    /\ eng[e].eventProcessedCh # NoPoller
    /\ eng[e].setEventID \in {"ok", "failed"}
    /\ pollers[eng[e].eventProcessedCh] = "idle"

\* C3: when the fetch or an applier fails with cause InvalidToken or
\* Unauthorized, processNextEvent returns that error and the loop ends in that
\* iteration, whatever the file-descriptor probe says.
FatalErrorEndsLoop ==
  \A e \in Engines :
    eng[e].cause \in FatalKinds =>
      /\ eng[e].pc \in {"signal", "check", "idle"}
      /\ eng[e].err = eng[e].cause

\* C3's failing case: a fatal cause was swallowed and the loop is back in its
\* select.
FatalErrorSwallowed ==
  \E e \in Engines :
    /\ eng[e].cause \in FatalKinds
    /\ eng[e].err = Nil
    /\ eng[e].pc = "select"

\* C4: an iteration in which a fatal error occurred calls user.Logout() exactly
\* once.
LogoutExactlyOnce ==
  \A e \in Engines :
    (eng[e].cause \in FatalKinds /\ eng[e].pc \in AfterIteration) => eng[e].logouts = 1

\* C4's failing case: UpdateUser failed with a fatal cause and the iteration
\* called Logout twice.
LogoutTwice ==
  \E e \in Engines :
    /\ eng[e].cause \in FatalKinds
    /\ eng[e].pc = "idle"
    /\ eng[e].lastApplier = 1
    /\ eng[e].logouts = 2

\* C5 as stated: after an iteration that fetched an event and applied it without
\* an applier error, a self-PollNow was spawned exactly when More = 1, whatever
\* the cursor write did.
SelfPollNowIffMore ==
  \A e \in Engines :
    (eng[e].pc = "select" /\ eng[e].setEventID # "none")
      => eng[e].spawned = (eng[e].event.More = 1)

\* C5 amended: after an iteration that applied an event without an applier error
\* and whose cursor write did not fail, a self-PollNow was spawned exactly when
\* More = 1; when the cursor write failed, none was spawned.
SelfPollNowIffMoreAndCursorWritten ==
  \A e \in Engines :
    /\ (eng[e].pc = "select" /\ eng[e].setEventID \in {"ok", "skipped"})
         => eng[e].spawned = (eng[e].event.More = 1)
    /\ (eng[e].pc = "select" /\ eng[e].setEventID = "failed") => ~eng[e].spawned

\* C5's case: a More = 1 event was applied, its id written, and the pollNow
\* task the engine spawned is sending its request.
SelfPollNowSpawned ==
  \E e \in Engines :
    /\ eng[e].pc = "select"
    /\ eng[e].setEventID = "ok"
    /\ eng[e].event.More = 1
    /\ eng[e].spawned
    /\ \E p \in Pollers : pollers[p] = "send"

\* C6: for an event whose Refresh has the MAIL bit no applier runs, triggerSync is
\* called, and processNextEvent moves the cursor to the event's id and writes it
\* to the cache (unless the cursor was that id already).
RefreshSkipsAppliers ==
  \A e \in Engines :
    eng[e].refresh =>
      /\ eng[e].pc \in {"advance", "signal", "check"}
      /\ eng[e].lastApplier = 0
      /\ eng[e].triggerSync
      /\ eng[e].pc # "advance" =>
           /\ loop.currentEventID = eng[e].event.EventID
           /\ eng[e].setEventID \in {"ok", "failed", "skipped"}
           /\ eng[e].setEventID = "ok" => cacheEventID = eng[e].event.EventID

\* C6's case: a refresh event was processed and its id, a new one, written.
RefreshProcessed ==
  \E e \in Engines :
    /\ eng[e].pc = "signal"
    /\ eng[e].refresh
    /\ eng[e].triggerSync
    /\ eng[e].setEventID = "ok"
    /\ cacheEventID = eng[e].event.EventID

\* C10: every call of imapSendUpdate returns, so that an event with notices is
\* processed to the end: from processNotices and from each imapSendUpdate call
\* in it, processNextEvent comes to return with the cursor on the event's id.
ImapSendUpdateReturns ==
  \A e \in Engines :
    (eng[e].pc \in {"processNotices", "imapSendUpdate"} /\ eng[e].lastApplier = 5)
      ~> (/\ eng[e].pc = "signal"
          /\ eng[e].setEventID # "none"
          /\ loop.currentEventID = eng[e].event.EventID)

\* C10's case: imapSendUpdate is sending on a registered channel.
ImapSendUpdateSending ==
  \E e \in Engines : eng[e].pc = "imapSendUpdate" /\ imapUpdates

LabelReconciliationIdempotent ==
  (Len(patchRun.results) >= 2 /\ ~patchRun.updates.hasLabelIDs)
    => patchRun.results[2].LabelIDs = patchRun.results[1].LabelIDs

\* C8's case: the added and removed lists overlap each other and the message's
\* list, the first call changed the list, and the patch was applied twice.
OverlappingPatchAppliedTwice ==
  /\ Len(patchRun.results) = 2
  /\ ~patchRun.updates.hasLabelIDs
  /\ Range(patchRun.updates.LabelIDsAdded) \cap Range(patchRun.updates.LabelIDsRemoved) # {}
  /\ Range(patchRun.updates.LabelIDsAdded) \cap Range(patchRun.input.LabelIDs) # {}
  /\ Range(patchRun.updates.LabelIDsRemoved) \cap Range(patchRun.input.LabelIDs) # {}
  /\ patchRun.results[1].LabelIDs # patchRun.input.LabelIDs
  /\ patchRun.results[1].LabelIDs # <<>>

\* The elements of s at the positions of keep, in the order of s.
AtPositions(s, keep) ==
  LET at == SelectSeq([i \in 1..Len(s) |-> i], LAMBDA i : i \in keep)
  IN [k \in 1..Len(at) |-> s[at[k]]]

\* The label ids C9 states for a patch without LabelIDs: the existing ids in
\* their order, then the added ids not already present, in patch order, all
\* without the removed ids.
ReconciledLabelIDs(ids, added, removed) ==
  LET new == AtPositions(added, {i \in 1..Len(added) :
                                   /\ added[i] \notin Range(ids)
                                   /\ \A j \in 1..(i - 1) : added[j] # added[i]})
      all == ids \o new
  IN AtPositions(all, {i \in 1..Len(all) : all[i] \notin Range(removed)})

\* C9: updateMessage sets Time, overwrites a pointer field exactly when the patch
\* has it, and sets LabelIDs to the patch's LabelIDs when present, else to the
\* reconciled list.
PatchMergeResult ==
  Len(patchRun.results) >= 1 =>
    LET message == patchRun.input
        updates == patchRun.updates
        res == patchRun.results[1]
    IN /\ res.ID = message.ID
       /\ res.Time = updates.Time
       /\ \A f \in PatchFields :
            res[f] = IF updates[f] = Nil THEN message[f] ELSE updates[f]
       /\ res.LabelIDs =
            IF updates.hasLabelIDs THEN updates.LabelIDs
            ELSE ReconciledLabelIDs(message.LabelIDs, updates.LabelIDsAdded,
                                    updates.LabelIDsRemoved)

\* C9's case: [L1, L2] with Added [L3] and Removed [L1] gave [L2, L3], Subject
\* was in the patch and overwritten, Sender was not and stayed.
PatchMergeExample ==
  /\ Len(patchRun.results) >= 1
  /\ patchRun.input.LabelIDs = <<"L1", "L2">>
  /\ ~patchRun.updates.hasLabelIDs
  /\ patchRun.updates.LabelIDsAdded = <<"L3">>
  /\ patchRun.updates.LabelIDsRemoved = <<"L1">>
  /\ patchRun.results[1].LabelIDs = <<"L2", "L3">>
  /\ patchRun.updates.Subject = "new" /\ patchRun.results[1].Subject = "new"
  /\ patchRun.updates.Sender = Nil /\ patchRun.results[1].Sender = "old"
  /\ patchRun.results[1].Time = "new"

\* ------------------------------------------------- claims on the lifecycle

\* Positions inside processNextEvent.
InProcessNextEvent ==
  {"fetch", "processEvent", "imapSendUpdate", "advance"}
    \cup {Appliers[i] : i \in 1..Len(Appliers)}

\* Positions inside start()'s loop.
InLoop == InProcessNextEvent \cup {"select", "prelude", "signal", "check"}

\* C11: at most one goroutine is inside start()'s loop at a time, and no two
\* are inside processNextEvent at once.
OneEngineAtATime ==
  /\ Cardinality({e \in DOMAIN eng : eng[e].pc \in InLoop}) <= 1
  /\ Cardinality({e \in DOMAIN eng : eng[e].pc \in InProcessNextEvent}) <= 1

\* C11's failing case: stop() closed the stop channel of a run, timed out and
\* returned; a start() that made its channels after that and the stopped run
\* are both inside processNextEvent.
EnginesOverlapAfterStopTimeout ==
  \E e1, e2 \in DOMAIN eng :
    /\ eng[e1].madeCh \in closedChs.stop
    /\ eng[e2].madeCh > eng[e1].madeCh
    /\ closedChs.notify = {}
    /\ \A s \in Stoppers : stop[s].pc = "idle" /\ stop[s].calls = 1
    /\ eng[e1].pc \in InProcessNextEvent
    /\ eng[e2].pc \in InProcessNextEvent

\* C12: a goroutine that has returned from start() after entering the loop has
\* closed the notifyStopCh its start() made.
ReturnAcknowledged ==
  \A e \in DOMAIN eng :
    (eng[e].pc = "idle" /\ eng[e].madeCh # 0) => eng[e].madeCh \in closedChs.notify

\* C12's failing case: stop() waits for the acknowledgement of a run that has
\* returned on a fatal error without closing notifyStopCh; only the timeout
\* releases it.
StopWaitsForReturnedEngine ==
  \E e \in DOMAIN eng, s \in Stoppers :
    /\ eng[e].pc = "idle"
    /\ eng[e].err \in FatalKinds
    /\ stop[s].pc = "wait"
    /\ stop[s].waitCh = eng[e].madeCh
    /\ stop[s].waitCh \notin closedChs.notify

\* C13: once a goroutine has left start() on a fatal error (Logout called), no
\* start() call passes the isRunning check.
NoStartAfterFatalExit ==
  [][(\E e \in DOMAIN eng : /\ eng[e].pc = "idle"
                             /\ eng[e].err \in FatalKinds
                             /\ eng[e].logouts >= 1)
       => \A e \in DOMAIN eng : ~(eng[e].pc = "idle" /\ eng'[e].pc = "starting")]_vars

\* C13's failing case: with stop() never called, one goroutine has left start()
\* on a fatal error and another, whose start() made its channels later, has
\* fetched an event and written its id to the cache.
StartedAgainAfterFatalExit ==
  \E e1, e2 \in DOMAIN eng :
    /\ eng[e1].pc = "idle"
    /\ eng[e1].err \in FatalKinds
    /\ \A s \in Stoppers : stop[s].calls = 0
    /\ loop.isRunning
    /\ eng[e2].madeCh > eng[e1].madeCh
    /\ eng[e2].pc = "signal"
    /\ eng[e2].setEventID = "ok"

\* ------------------------------------- claims on one processNextEvent call

\* Positions after processNextEvent returned.
AfterPNE == {"signal", "check"}

\* A goroutine's current iteration fetched an event.
Fetched(e) == eng[e].event.EventID # 0

\* A step appended bridge event b to what goroutine e emitted.
Emits(e, b) ==
  /\ Len(eng'[e].emitted) > Len(eng[e].emitted)
  /\ \E i \in (Len(eng[e].emitted) + 1)..Len(eng'[e].emitted) : eng'[e].emitted[i] = b

\* C14: a processNextEvent whose error cause is NotReachable has emitted
\* InternetOff, left hasInternet false and left both cursors as they were at
\* the fetch; InternetOn is among the emitted events exactly when the fetch
\* succeeded while hasInternet was false, it is there before any applier has
\* run, and the step that emits it never follows another InternetOn with no
\* InternetOff in between.
ConnectivitySignalling ==
  /\ [](\A e \in DOMAIN eng :
          /\ (eng[e].pc \in AfterPNE /\ eng[e].cause = ErrAPINotReachable)
               => /\ InternetOffEvent \in Range(eng[e].emitted)
                  /\ ~loop.hasInternet
                  /\ eng[e].err = Nil
                  /\ ~eng[e].more
                  /\ loop.currentEventID = eng[e].atFetch.currentEventID
                  /\ cacheEventID = eng[e].atFetch.cacheEventID
          /\ eng[e].pc \in InLoop
               => /\ InternetOnEvent \in Range(eng[e].emitted)
                       <=> (Fetched(e) /\ ~eng[e].atFetch.hasInternet)
                  /\ Cardinality({i \in 1..Len(eng[e].emitted) :
                                    eng[e].emitted[i] = InternetOnEvent}) <= 1
          /\ (eng[e].pc = "processEvent" /\ ~eng[e].atFetch.hasInternet)
               => /\ InternetOnEvent \in Range(eng[e].emitted)
                  /\ eng[e].lastApplier = 0)
  /\ [][\A e \in DOMAIN eng :
          Emits(e, InternetOnEvent)
            => /\ loop.lastConnectivity # InternetOnEvent
               /\ eng[e].pc = "fetch"
               /\ ~loop.hasInternet]_vars

\* C14's case: offline with an empty cursor after a NotReachable fetch, the
\* next fetch succeeded and InternetOn is emitted with no applier run yet.
InternetOnBeforeAppliers ==
  \E e \in DOMAIN eng :
    /\ eng[e].pc = "processEvent"
    /\ ~eng[e].atFetch.hasInternet
    /\ loop.lastConnectivity = InternetOnEvent
    /\ eng[e].emitted = <<InternetOnEvent>>
    /\ eng[e].lastApplier = 0
    /\ loop.hasInternet

\* The iteration of goroutine e ended processNextEvent with an error whose
\* cause is neither InvalidToken nor Unauthorized.
TransientCause(e) ==
  /\ eng[e].pc \in AfterPNE
  /\ eng[e].cause # Nil
  /\ eng[e].cause \notin FatalKinds

\* C15 as stated: after an error with a transient cause processNextEvent has
\* returned nil, Logout was not called in the iteration, and an
\* UpgradeApplication cause has emitted UpgradeApplicationEvent.
TransientErrorsSwallowedWithoutLogout ==
  \A e \in DOMAIN eng :
    TransientCause(e)
      => /\ eng[e].err = Nil
         /\ eng[e].logouts = 0
         /\ eng[e].cause = ErrUpgradeApplication
              => UpgradeApplicationEvent \in Range(eng[e].emitted)

\* C15, amended: after an error with a transient cause processNextEvent has
\* returned nil and more = false, and the goroutine goes from its check of the
\* error back to the select without a Logout; the one Logout such an
\* iteration can hold is that of processAddresses after UpdateUser failed; an
\* UpgradeApplication cause has emitted UpgradeApplicationEvent when the file
\* descriptors were not near the limit and RestartBridgeEvent instead when they
\* were; and an iteration whose setFirstEventID failed goes on to
\* processNextEvent.
TransientErrorsSwallowed ==
  /\ [](\A e \in DOMAIN eng :
          TransientCause(e)
            => /\ eng[e].err = Nil
               /\ ~eng[e].more
               /\ eng[e].logouts <= 1
               /\ eng[e].logouts = 1 => eng[e].lastApplier = 1
               /\ eng[e].cause = ErrUpgradeApplication
                    => /\ UpgradeApplicationEvent \in Range(eng[e].emitted)
                            <=> ~eng[e].nearLimit
                       /\ RestartBridgeEvent \in Range(eng[e].emitted)
                            <=> eng[e].nearLimit)
  /\ [][\A e \in DOMAIN eng :
          /\ (TransientCause(e) /\ eng[e].pc = "check" /\ eng'[e] # eng[e])
               => /\ eng'[e].pc = "select"
                  /\ eng'[e].logouts = eng[e].logouts
          /\ (eng[e].pc = "prelude" /\ eng'[e].pc # "prelude")
               => /\ eng'[e].pc = "fetch"
                  /\ eng'[e].logouts = eng[e].logouts]_vars

\* C15's case: an iteration ended with an UpgradeApplication cause, emitted the
\* bridge event, returned nil and is at the check of the error.
UpgradeApplicationSwallowed ==
  \E e \in DOMAIN eng :
    /\ eng[e].pc = "check"
    /\ eng[e].cause = ErrUpgradeApplication
    /\ eng[e].err = Nil
    /\ eng[e].emitted = <<UpgradeApplicationEvent>>
    /\ eng[e].logouts = 0
    /\ loop.isRunning

\* A step of goroutine e ran an applier: the appliers run in the order of
\* Appliers, each from its own position, and none for a refresh event.
AppliersInOrder(e) ==
  (eng'[e].lastApplier # eng[e].lastApplier /\ eng'[e].lastApplier # 0)
    => /\ eng'[e].lastApplier > eng[e].lastApplier
       /\ eng[e].pc = Appliers[eng'[e].lastApplier]
       /\ ~eng[e].refresh

\* Goroutine e is past a processNextEvent in which an applier failed: no later
\* applier has run and both cursors are what they were at the fetch.
FailedApplierLeavesCursors(e) ==
  (eng[e].pc \in AfterPNE /\ Previous(eng[e]).outcome = "applier failed")
    => /\ eng[e].setEventID = "none"
       /\ loop.currentEventID = eng[e].atFetch.currentEventID
       /\ cacheEventID = eng[e].atFetch.cacheEventID

\* A step of goroutine e calls GetEvent.
CallsGetEvent(e) == eng[e].pc = "fetch" /\ eng'[e].pc # "fetch"

\* C16: the appliers of an event run in the fixed order; after an applier
\* failed no later applier of the event runs and the two cursors are as they
\* were when the event was fetched; and the GetEvent call of the next iteration
\* is made with the sinceID of the failed one, so that it fetches the same
\* event again.
FailedEventFetchedAgain ==
  [][\A e \in DOMAIN eng :
       /\ AppliersInOrder(e)
       /\ FailedApplierLeavesCursors(e)'
       /\ (CallsGetEvent(e) /\ eng[e].previous.outcome = "applier failed")
            => loop.currentEventID = eng[e].previous.sinceID]_vars

\* C16's failing case: an applier failed on an event fetched with the empty
\* cursor, and the next iteration is about to fetch with the cursor that its
\* setFirstEventID set.
FailedEventSkipped ==
  \E e \in DOMAIN eng :
    /\ eng[e].pc = "fetch"
    /\ eng[e].previous.outcome = "applier failed"
    /\ eng[e].previous.sinceID = 0
    /\ eng[e].firstEventErr = Nil
    /\ loop.currentEventID # 0

\* C17 as stated: whenever processNextEvent ended with an error, whatever its
\* cause, while the file descriptors were near the limit, RestartBridgeEvent
\* was emitted and the error swallowed; a NotReachable cause has emitted both
\* InternetOffEvent and RestartBridgeEvent.
FdCheckIndependentOfErrorKind ==
  \A e \in DOMAIN eng :
    (eng[e].pc \in AfterPNE /\ eng[e].nearLimit)
      => /\ RestartBridgeEvent \in Range(eng[e].emitted)
         /\ eng[e].err = Nil
         /\ eng[e].cause = ErrAPINotReachable
              => InternetOffEvent \in Range(eng[e].emitted)

\* C17, amended: when processNextEvent ended with an error while the file
\* descriptors were near the limit, a cause other than NotReachable (the two
\* fatal ones and UpgradeApplication included) has emitted RestartBridgeEvent
\* as the only event of the classification and the error is swallowed; a
\* NotReachable cause has emitted InternetOffEvent and no RestartBridgeEvent;
\* and RestartBridgeEvent is emitted in no other case.
FdCheckAfterNotReachable ==
  \A e \in DOMAIN eng :
    eng[e].pc \in AfterPNE
      => /\ eng[e].nearLimit => eng[e].err = Nil
         /\ RestartBridgeEvent \in Range(eng[e].emitted)
              <=> (eng[e].nearLimit /\ eng[e].cause # ErrAPINotReachable)
         /\ (eng[e].nearLimit /\ eng[e].cause # ErrAPINotReachable)
              => /\ UpgradeApplicationEvent \notin Range(eng[e].emitted)
                 /\ InternetOffEvent \notin Range(eng[e].emitted)
         /\ (eng[e].nearLimit /\ eng[e].cause = ErrAPINotReachable)
              => /\ InternetOffEvent \in Range(eng[e].emitted)
                 /\ ~loop.hasInternet

\* C17's case: a generic error near the limit was swallowed with a
\* RestartBridgeEvent and the goroutine is at its check of the error.
RestartBridgeSwallowsError ==
  \E e \in DOMAIN eng :
    /\ eng[e].pc = "check"
    /\ eng[e].nearLimit
    /\ eng[e].cause = ErrOther
    /\ eng[e].emitted = <<RestartBridgeEvent>>
    /\ eng[e].err = Nil

\* C18: after a failed cache.setEventID the in-memory cursor is the applied
\* event's id, the persisted cursor is what it was at the fetch, and
\* processNextEvent returned nil; the goroutine goes back to its select, and
\* the next GetEvent is called with the new in-memory cursor; at every moment
\* the persisted cursor is the in-memory cursor or a value it held before.
FailedCursorWriteKeepsAdvance ==
  /\ [](/\ \A e \in DOMAIN eng :
             (eng[e].pc \in AfterPNE /\ eng[e].setEventID = "failed")
               => /\ loop.currentEventID = eng[e].event.EventID
                  /\ loop.currentEventID # eng[e].atFetch.currentEventID
                  /\ cacheEventID = eng[e].atFetch.cacheEventID
                  /\ eng[e].event.EventID \in applied
                  /\ eng[e].err = Nil
        /\ cacheEventID = loop.currentEventID \/ cacheEventID \in loop.held)
  /\ [][\A e \in DOMAIN eng :
          /\ (eng[e].pc = "check" /\ eng[e].setEventID = "failed" /\ eng'[e] # eng[e])
               => eng'[e].pc = "select"
          /\ (CallsGetEvent(e) /\ eng[e].previous.outcome = "write failed")
               => loop.currentEventID = eng[e].previous.EventID]_vars

\* C18's case: the iteration after a failed cursor write is about to fetch
\* with the advanced in-memory cursor while the persisted one is behind.
FetchAfterFailedCursorWrite ==
  \E e \in DOMAIN eng :
    /\ eng[e].pc = "fetch"
    /\ eng[e].previous.outcome = "write failed"
    /\ loop.currentEventID = eng[e].previous.EventID
    /\ cacheEventID # loop.currentEventID
    /\ cacheEventID \in loop.held
    /\ loop.isRunning

\* C19: an event that GetEvent returned for an empty sinceID is never passed
\* to the appliers: while the iteration that fetched it lasts no applier has
\* run.
HeadEventOnlyInitialisesCursor ==
  \A e \in DOMAIN eng :
    (eng[e].pc \in InLoop /\ Fetched(e) /\ eng[e].atFetch.currentEventID = 0)
      => eng[e].lastApplier = 0

\* C19's failing case: setFirstEventID failed at its GetEvent, the cursor was
\* still empty when processNextEvent fetched, and the appliers ran on the
\* event it got and the cursor was written.
HeadEventApplied ==
  \E e \in DOMAIN eng :
    /\ eng[e].pc \in AfterPNE
    /\ eng[e].firstEventErr = "GetEvent"
    /\ eng[e].atFetch.currentEventID = 0
    /\ Fetched(e)
    /\ eng[e].lastApplier >= 1
    /\ eng[e].setEventID = "ok"
    /\ cacheEventID = eng[e].event.EventID

\* The pollers whose state goes from a to b in a step.
Moved(a, b) == {p \in Pollers : pollers[p] = a /\ pollers'[p] = b}

\* C20: a request that was received and not yet signalled is the one request
\* held by one iteration that has not signalled yet; a step receives at most
\* one request, and it is the step of a goroutine at its select; a step
\* releases at most one caller, it is the signal of the iteration that holds
\* the caller's request, made after its processNextEvent returned; and the
\* processNextEvent executions completed are never fewer than the callers
\* released.
PollNowRequestsSerialized ==
  /\ [](/\ \A p \in Pollers :
             pollers[p] = "wait"
               => Cardinality({e \in DOMAIN eng :
                                 /\ eng[e].eventProcessedCh = p
                                 /\ eng[e].pc \in BeforePNEReturns \cup {"signal"}}) = 1
        /\ loop.ahead >= 0)
  /\ [][/\ Cardinality(Moved("send", "wait")) <= 1
        /\ Cardinality(Moved("wait", "idle")) <= 1
        /\ \A p \in Moved("send", "wait") :
             \E e \in DOMAIN eng :
               /\ eng[e].pc = "select"
               /\ eng'[e].pc = "prelude"
               /\ eng'[e].eventProcessedCh = p
        /\ \A p \in Moved("wait", "idle") :
             /\ loop.ahead >= 1
             /\ \E e \in DOMAIN eng :
                  /\ eng[e].pc = "signal"
                  /\ eng[e].eventProcessedCh = p
                  /\ eng'[e].pc = "check"
        /\ \A p \in Pollers :
             pollers'[p] # pollers[p]
               => p \in Moved("idle", "send") \cup Moved("send", "wait")
                          \cup Moved("wait", "idle")]_vars

\* C20's case: two callers are pending at once; the request of one was
\* received by an iteration that is inside processNextEvent, the other is
\* still at its send.
RequestsPendingTogether ==
  \E p, q \in Pollers, e \in DOMAIN eng :
    /\ pollers[p] = "wait"
    /\ pollers[q] = "send"
    /\ eng[e].eventProcessedCh = p
    /\ eng[e].pc \in InProcessNextEvent

\* ------------------------------------------- claims on stop() and pollNow()

\* C21: no stop() closes a stop channel that is already closed, and a stop()
\* that is about to close the stop channel finds one that start() has made.
StopChClosedAtMostOnce ==
  \A s \in DOMAIN stop :
    /\ stop[s].pc # "panic"
    /\ stop[s].pc = "close" => loop.stopCh # 0

\* C21's failing case: two stop() calls read isRunning as true during one run;
\* one has closed the run's stop channel and waits, the engine has not yet
\* seen it, and the other is about to close the same channel.
SecondStopAboutToClose ==
  \E s1, s2 \in DOMAIN stop, e \in DOMAIN eng :
    /\ s1 # s2
    /\ stop[s1].pc = "wait"
    /\ stop[s2].pc = "close"
    /\ eng[e].madeCh = loop.stopCh
    /\ eng[e].pc \in InLoop
    /\ eng[e].runs = 1
    /\ loop.stopCh \in closedChs.stop

\* C22: every pollNow() call that is under way while a goroutine is in the
\* loop of start() returns.
PollNowReturns ==
  \A p \in Pollers :
    (pollers[p] # "idle" /\ \E e \in DOMAIN eng : eng[e].pc \in InLoop)
      ~> (pollers[p] = "idle")

\* C22's failing case: the goroutine of start() has returned on a fatal error,
\* stop() was not called, and a pollNow task still offers its request on
\* pollCh, which nothing receives from.
PollNowBlockedAfterFatalExit ==
  \E p \in Pollers, e \in DOMAIN eng :
    /\ pollers[p] = "send"
    /\ eng[e].pc = "idle"
    /\ eng[e].madeCh # 0
    /\ eng[e].err \in FatalKinds
    /\ ~loop.isRunning
    /\ \A s \in DOMAIN stop : stop[s].calls = 0
====
